---- MODULE Spec2Model ----
(***************************************************************************)
(* Model of the Markov process graph construction of SourceCred            *)
(* (core/markovProcessGraph.js, MarkovProcessGraph.new).                   *)
(*                                                                         *)
(* Addresses are sequences of string parts, as in the address module.      *)
(* Transition probabilities and weights are exact rationals [n, d] in      *)
(* lowest terms: the model follows the arithmetic of the code without the  *)
(* rounding of IEEE doubles.                                               *)
(* JavaScript Maps and Sets are insertion-ordered, so _nodes, _edges and   *)
(* _scoringAddresses are sequences without duplicate keys.                 *)
(***************************************************************************)
EXTENDS Integers, Sequences, FiniteSets, TLC

----------------------------------------------------------------------------
(* Bounds of the explored inputs *)

\* largest edge timestamp
MaxTs == 2
\* largest node weight and edge weight per direction
MaxW == 2
\* teleportation parameters of the parameter sweep range over -1/Den .. MaxP/Den
MaxP == 2
Den == 4

----------------------------------------------------------------------------
(* Exact rational arithmetic standing for JavaScript numbers *)

RECURSIVE Gcd(_, _)
Gcd(a, b) == IF b = 0 THEN a ELSE Gcd(b, a % b)

Abs(x) == IF x < 0 THEN 0 - x ELSE x

R(n, d) ==
  LET sn == IF d < 0 THEN 0 - n ELSE n
      sd == Abs(d)
      g  == Gcd(Abs(sn), sd)
  IN  [n |-> sn \div g, d |-> sd \div g]

Zero == R(0, 1)
One == R(1, 1)
RAdd(x, y) == R(x.n * y.d + y.n * x.d, x.d * y.d)
RSub(x, y) == R(x.n * y.d - y.n * x.d, x.d * y.d)
RMul(x, y) == R(x.n * y.n, x.d * y.d)
RDiv(x, y) == R(x.n * y.d, x.d * y.n)
RLt(x, y) == x.n * y.d < y.n * x.d

----------------------------------------------------------------------------
(* Address algebra *)

hasPrefix(a, p) == Len(p) <= Len(a) /\ SubSeq(a, 1, Len(p)) = p

CORE_NODE_PREFIX == <<"sourcecred", "core">>
SEED_ADDRESS == CORE_NODE_PREFIX \o <<"SEED">>
SEED_DESCRIPTION == "seedling"
EPOCH_PREFIX == CORE_NODE_PREFIX \o <<"EPOCH">>
FIBRATION_EDGE == <<"sourcecred", "core", "fibration">>
EPOCH_PAYOUT == FIBRATION_EDGE \o <<"EPOCH_PAYOUT">>
EPOCH_WEBBING == FIBRATION_EDGE \o <<"EPOCH_WEBBING">>
EPOCH_RADIATION == FIBRATION_EDGE \o <<"EPOCH_RADIATION">>
CONTRIBUTION_RADIATION == <<"sourcecred", "core", "CONTRIBUTION_RADIATION">>
SEED_MINT == <<"sourcecred", "core", "SEED_MINT">>

\* -Infinity and Infinity of timeBoundaries: integers outside every
\* timestamp and every week boundary of the explored inputs
WeekMs == 2
NegInf == 0 - 1
PosInf == MaxTs + WeekMs + 1

\* String(x) for a boundary
String(b) ==
  IF b = NegInf THEN "-Infinity"
  ELSE IF b = PosInf THEN "Infinity"
  ELSE ToString(b)

epochNodeAddressToRaw(addr) ==
  EPOCH_PREFIX \o <<String(addr.epochStart)>> \o addr.owner

\* unary plus on a part written by String: the boundary it was written from
Number(part) ==
  CHOOSE b \in NegInf..PosInf : String(b) = part

epochNodeAddressFromRaw(addr) ==
  LET epochPrefixLength == Len(EPOCH_PREFIX)
  IN  [type |-> "EPOCH_NODE",
       owner |-> SubSeq(addr, epochPrefixLength + 2, Len(addr)),
       epochStart |-> Number(addr[epochPrefixLength + 1])]

rawEdgeAddress(edge) ==
  <<(IF edge.reversed THEN "B" ELSE "F")>> \o edge.address

----------------------------------------------------------------------------
(* External collaborators: the weighted graph, the weight evaluators, the  *)
(* interval partitioner and the library calls used by the constructor      *)

\* wg.graph.nodes(): the nodes of the input graph, in address order
graphNodes(wg) == wg.graph.nodes

\* wg.graph.edges({showDangling: false}): the edges whose two endpoints are
\* nodes of the graph
graphEdges(wg) ==
  LET present == {wg.graph.nodes[i].address : i \in DOMAIN wg.graph.nodes}
      keep(e) == e.src \in present /\ e.dst \in present
  IN  SelectSeq(wg.graph.edges, keep)

\* nodeWeightEvaluator(wg.weights)(address)
nodeWeightEvaluator(wg, address) == R(wg.weights.nodes[address], 1)

\* edgeWeightEvaluator(wg.weights)(address)
edgeWeightEvaluator(wg, address) ==
  [forwards  |-> R(wg.weights.edges[address].forwards, 1),
   backwards |-> R(wg.weights.edges[address].backwards, 1)]

\* d3-array min and max: <<>> stands for undefined (empty input)
min(xs) ==
  IF Len(xs) = 0 THEN <<>>
  ELSE <<CHOOSE x \in {xs[i] : i \in DOMAIN xs} :
            \A j \in DOMAIN xs : x <= xs[j]>>
max(xs) ==
  IF Len(xs) = 0 THEN <<>>
  ELSE <<CHOOSE x \in {xs[i] : i \in DOMAIN xs} :
            \A j \in DOMAIN xs : x >= xs[j]>>

weekFloor(t) == t - (t % WeekMs)
weekCeil(t) == IF t % WeekMs = 0 THEN t ELSE weekFloor(t) + WeekMs

\* weekIntervals(start, end): week-aligned intervals whose start times run
\* from a boundary <= start to a boundary >= end; none for an empty input
weekIntervals(start, end) ==
  IF start = <<>> \/ end = <<>> THEN <<>>
  ELSE LET lo == weekFloor(start[1])
           hi == weekCeil(end[1])
           k  == ((hi - lo) \div WeekMs) + 1
       IN  [i \in 1..k |->
              [startTimeMs |-> lo + (i - 1) * WeekMs,
               endTimeMs   |-> lo + i * WeekMs]]

\* lodash sortedIndex: the lowest (0-based) index at which value can be
\* inserted into the sorted array, i.e. the number of elements below value
sortedIndex(array, value) ==
  Cardinality({i \in DOMAIN array : array[i] < value})

----------------------------------------------------------------------------
(* MarkovProcessGraph.new: helpers *)

_findScoringAddresses(wg, scoringPrefixes) ==
  LET match(node) == \E p \in scoringPrefixes : hasPrefix(node.address, p)
      hits == SelectSeq(graphNodes(wg), match)
  IN  [i \in DOMAIN hits |-> hits[i].address]

\* the immediately-invoked function computing epochTransitionRemainder
epochTransitionRemainderOf(seedOpts, fib) ==
  LET alpha == seedOpts.alpha
      beta == fib.beta
      gammaForward == fib.gammaForward
      gammaBackward == fib.gammaBackward
      result == RSub(One, RAdd(RAdd(RAdd(alpha, beta), gammaForward),
                               gammaBackward))
  IN  IF RLt(beta, Zero) \/ RLt(gammaForward, Zero) \/ RLt(gammaBackward, Zero)
      THEN [err |-> "Negative transition probability", result |-> result]
      ELSE IF RLt(result, Zero)
      THEN [err |-> "Overlarge transition probability", result |-> result]
      ELSE [err |-> "", result |-> result]

\* the immediately-invoked function computing timeBoundaries
timeBoundariesOf(wg) ==
  LET es == graphEdges(wg)
      edgeTimestamps == [i \in DOMAIN es |-> es[i].timestampMs]
      start == min(edgeTimestamps)
      end == max(edgeTimestamps)
      ivs == weekIntervals(start, end)
      boundaries == [i \in DOMAIN ivs |-> ivs[i].startTimeMs]
  IN  <<NegInf>> \o boundaries \o <<PosInf>>

\* The maps under construction: st.nodes is _nodes, st.edges is _edges,
\* st.masses is _nodeOutMasses; st.err is the message of the Error thrown,
\* "" while none has been thrown.  A throw aborts the construction, so
\* every helper leaves a state with an error unchanged.

hasNode(nodes, address) == \E i \in DOMAIN nodes : nodes[i].address = address
hasEdge(edges, mae) == \E i \in DOMAIN edges : rawEdgeAddress(edges[i]) = mae

\* Variant of outMass that never finds the accumulated mass.
outMass_AlwaysZero(masses, a) == Zero

\* NullUtil.orElse(_nodeOutMasses.get(a), 0)
outMass(masses, a) == IF a \in DOMAIN masses THEN masses[a] ELSE Zero

addNode(st, node) ==
  IF st.err # "" THEN st
  ELSE IF hasNode(st.nodes, node.address)
  THEN [st EXCEPT !.err = "Node conflict"]
  ELSE [st EXCEPT !.nodes = Append(@, node)]

\* Variant of addEdge that does not accumulate _nodeOutMasses.
addEdge_NoOutMass(st, edge) ==
  LET mae == rawEdgeAddress(edge)
      pr == edge.transitionProbability
  IN  IF st.err # "" THEN st
      ELSE IF hasEdge(st.edges, mae)
      THEN [st EXCEPT !.err = "Edge conflict"]
      ELSE IF RLt(pr, Zero) \/ RLt(One, pr)
      THEN [st EXCEPT !.err = "Invalid transition probability"]
      ELSE [st EXCEPT !.edges = Append(@, edge)]

addEdge(st, edge) ==
  LET mae == rawEdgeAddress(edge)
      pr == edge.transitionProbability
  IN  IF st.err # "" THEN st
      ELSE IF hasEdge(st.edges, mae)
      THEN [st EXCEPT !.err = "Edge conflict"]
      ELSE IF RLt(pr, Zero) \/ RLt(One, pr)
      THEN [st EXCEPT !.err = "Invalid transition probability"]
      ELSE [st EXCEPT
              !.edges = Append(@, edge),
              !.masses = [a \in DOMAIN st.masses \cup {edge.src} |->
                            IF a = edge.src
                            THEN RAdd(outMass(st.masses, a), pr)
                            ELSE st.masses[a]]]

----------------------------------------------------------------------------
(* MarkovProcessGraph.new: the construction steps, in source order *)

\* "Add seed node"
addSeedNode(st) ==
  addNode(st, [address |-> SEED_ADDRESS, description |-> SEED_DESCRIPTION,
               mint |-> Zero])

\* Variant of addGraphNode without the test of the core prefix.
addGraphNode_NoCoreCheck(st, wg, node) ==
  LET weight == nodeWeightEvaluator(wg, node.address)
  IN  IF st.err # "" THEN st
      ELSE IF RLt(weight, Zero)
      THEN [st EXCEPT !.err = "Bad node weight"]
      ELSE addNode(st, [address |-> node.address,
                        description |-> node.description,
                        mint |-> weight])

\* one iteration of "Add graph nodes"
addGraphNode(st, wg, node) ==
  LET weight == nodeWeightEvaluator(wg, node.address)
  IN  IF st.err # "" THEN st
      \* weight < 0 || !Number.isFinite(weight): every rational is finite
      ELSE IF RLt(weight, Zero)
      THEN [st EXCEPT !.err = "Bad node weight"]
      ELSE IF hasPrefix(node.address, CORE_NODE_PREFIX)
      THEN [st EXCEPT !.err = "Unexpected core node in underlying graph"]
      ELSE addNode(st, [address |-> node.address,
                        description |-> node.description,
                        mint |-> weight])

RECURSIVE addGraphNodesFrom(_, _, _, _)
addGraphNodesFrom(st, wg, nodes, i) ==
  IF i > Len(nodes) THEN st
  ELSE addGraphNodesFrom(addGraphNode(st, wg, nodes[i]), wg, nodes, i + 1)

addGraphNodes(st, wg) == addGraphNodesFrom(st, wg, graphNodes(wg), 1)

\* Variant of addEpoch with the two webbing probabilities exchanged.
addEpoch_SwappedGammas(st, fib, scoringAddress, boundaries, j) ==
  LET boundary == boundaries[j]
      thisEpoch == epochNodeAddressToRaw(
        [type |-> "EPOCH_NODE", owner |-> scoringAddress,
         epochStart |-> boundary])
      s1 == addNode(st, [address |-> thisEpoch,
                         description |-> "Epoch starting " \o String(boundary)
                                           \o " ms past epoch",
                         mint |-> Zero])
      s2 == addEdge(s1, [address |-> EPOCH_PAYOUT \o <<String(boundary)>>
                                       \o scoringAddress,
                         reversed |-> FALSE,
                         src |-> thisEpoch,
                         dst |-> scoringAddress,
                         transitionProbability |-> fib.beta])
  IN  IF j = 1 THEN s2
      ELSE LET lastEpoch == epochNodeAddressToRaw(
                 [type |-> "EPOCH_NODE", owner |-> scoringAddress,
                  epochStart |-> boundaries[j - 1]])
               webAddress == EPOCH_WEBBING \o <<String(boundary)>>
                               \o scoringAddress
               s3 == addEdge(s2, [address |-> webAddress,
                                  reversed |-> FALSE,
                                  src |-> lastEpoch,
                                  dst |-> thisEpoch,
                                  transitionProbability |-> fib.gammaBackward])
           IN  addEdge(s3, [address |-> webAddress,
                            reversed |-> TRUE,
                            src |-> thisEpoch,
                            dst |-> lastEpoch,
                            transitionProbability |-> fib.gammaForward])

\* one iteration of the inner loop of "Add epoch nodes, payout edges, and
\* epoch webbing": boundaries[j] for scoringAddress; lastBoundary is
\* boundaries[j - 1] when j > 1 and null when j = 1
addEpoch(st, fib, scoringAddress, boundaries, j) ==
  LET boundary == boundaries[j]
      thisEpoch == epochNodeAddressToRaw(
        [type |-> "EPOCH_NODE", owner |-> scoringAddress,
         epochStart |-> boundary])
      s1 == addNode(st, [address |-> thisEpoch,
                         description |-> "Epoch starting " \o String(boundary)
                                           \o " ms past epoch",
                         mint |-> Zero])
      s2 == addEdge(s1, [address |-> EPOCH_PAYOUT \o <<String(boundary)>>
                                       \o scoringAddress,
                         reversed |-> FALSE,
                         src |-> thisEpoch,
                         dst |-> scoringAddress,
                         transitionProbability |-> fib.beta])
  IN  IF j = 1 THEN s2
      ELSE LET lastEpoch == epochNodeAddressToRaw(
                 [type |-> "EPOCH_NODE", owner |-> scoringAddress,
                  epochStart |-> boundaries[j - 1]])
               webAddress == EPOCH_WEBBING \o <<String(boundary)>>
                               \o scoringAddress
               s3 == addEdge(s2, [address |-> webAddress,
                                  reversed |-> FALSE,
                                  src |-> lastEpoch,
                                  dst |-> thisEpoch,
                                  transitionProbability |-> fib.gammaForward])
           IN  addEdge(s3, [address |-> webAddress,
                            reversed |-> TRUE,
                            src |-> thisEpoch,
                            dst |-> lastEpoch,
                            transitionProbability |-> fib.gammaBackward])

RECURSIVE addEpochsOf(_, _, _, _, _)
addEpochsOf(st, fib, scoringAddress, boundaries, j) ==
  IF j > Len(boundaries) THEN st
  ELSE addEpochsOf(addEpoch(st, fib, scoringAddress, boundaries, j),
                   fib, scoringAddress, boundaries, j + 1)

RECURSIVE addEpochsFrom(_, _, _, _, _)
addEpochsFrom(st, fib, scoring, boundaries, i) ==
  IF i > Len(scoring) THEN st
  ELSE addEpochsFrom(addEpochsOf(st, fib, scoring[i], boundaries, 1),
                     fib, scoring, boundaries, i + 1)

\* Variant of addEpochNodes that only makes the first epoch of every owner.
addEpochNodes_FirstEpochOnly(st, fib, scoring, boundaries) ==
  addEpochsFrom(st, fib, scoring, SubSeq(boundaries, 1, 1), 1)

addEpochNodes(st, fib, scoring, boundaries) ==
  addEpochsFrom(st, fib, scoring, boundaries, 1)

\* "Add minting edges, from the seed to positive-weight graph nodes"
RECURSIVE sumMint(_, _)
sumMint(nodes, i) ==
  IF i > Len(nodes) THEN Zero
  ELSE RAdd(nodes[i].mint, sumMint(nodes, i + 1))

\* Variant of positiveNodeWeights that keeps the nodes of mint 0.
positiveNodeWeights_All(nodes) == nodes

positiveNodeWeights(nodes) ==
  LET positive(node) == RLt(Zero, node.mint)
  IN  SelectSeq(nodes, positive)

RECURSIVE addMintingFrom(_, _, _, _)
addMintingFrom(st, positives, totalNodeWeight, i) ==
  IF i > Len(positives) THEN st
  ELSE addMintingFrom(
         addEdge(st, [address |-> SEED_MINT \o positives[i].address,
                      reversed |-> FALSE,
                      src |-> SEED_ADDRESS,
                      dst |-> positives[i].address,
                      transitionProbability |->
                        RDiv(positives[i].mint, totalNodeWeight)]),
         positives, totalNodeWeight, i + 1)

\* Variant of addMintingEdges without the check of totalNodeWeight.
addMintingEdges_NoCheck(st) ==
  LET positives == positiveNodeWeights(st.nodes)
      totalNodeWeight == sumMint(positives, 1)
  IN  IF st.err # "" THEN st
      ELSE addMintingFrom(st, positives, totalNodeWeight, 1)

addMintingEdges(st) ==
  LET positives == positiveNodeWeights(st.nodes)
      totalNodeWeight == sumMint(positives, 1)
  IN  IF st.err # "" THEN st
      ELSE IF ~RLt(Zero, totalNodeWeight)
      THEN [st EXCEPT !.err = "No outflow from seed"]
      ELSE addMintingFrom(st, positives, totalNodeWeight, 1)

\* Variant of rewriteEpochNode that leaves every address as it is.
rewriteEpochNode_Identity(scoring, boundaries, address, edgeTimestampMs) ==
  address

\* rewriteEpochNode: the epoch node of a scoring address at the edge's
\* timestamp, or the address itself if it is not a scoring address.
\* timeBoundaries[k] of the code is boundaries[k + 1] here.
rewriteEpochNode(scoring, boundaries, address, edgeTimestampMs) ==
  IF ~(\E i \in DOMAIN scoring : scoring[i] = address) THEN address
  ELSE LET epochEndIndex == sortedIndex(boundaries, edgeTimestampMs)
           epochStartIndex == epochEndIndex - 1
           epochTimestampMs == boundaries[epochStartIndex + 1]
       IN  epochNodeAddressToRaw([type |-> "EPOCH_NODE", owner |-> address,
                                  epochStart |-> epochTimestampMs])

\* Variant of bothDirections whose backward candidate keeps src and dst.
bothDirections_NoSwap(wg, edge) ==
  LET weight == edgeWeightEvaluator(wg, edge.address)
  IN  <<[address |-> edge.address, reversed |-> FALSE,
         src |-> edge.src, dst |-> edge.dst,
         timestamp |-> edge.timestampMs, weight |-> weight.forwards],
        [address |-> edge.address, reversed |-> TRUE,
         src |-> edge.src, dst |-> edge.dst,
         timestamp |-> edge.timestampMs, weight |-> weight.backwards]>>

\* the two candidates the inner generator yields for one graph edge
bothDirections(wg, edge) ==
  LET weight == edgeWeightEvaluator(wg, edge.address)
  IN  <<[address |-> edge.address, reversed |-> FALSE,
         src |-> edge.src, dst |-> edge.dst,
         timestamp |-> edge.timestampMs, weight |-> weight.forwards],
        [address |-> edge.address, reversed |-> TRUE,
         src |-> edge.dst, dst |-> edge.src,
         timestamp |-> edge.timestampMs, weight |-> weight.backwards]>>

RECURSIVE bothDirectionsFrom(_, _, _)
bothDirectionsFrom(wg, edges, i) ==
  IF i > Len(edges) THEN <<>>
  ELSE bothDirections(wg, edges[i]) \o bothDirectionsFrom(wg, edges, i + 1)

\* unidirectionalGraphEdges(): the candidates of positive weight
unidirectionalGraphEdges(wg) ==
  LET positive(edge) == RLt(Zero, edge.weight)
  IN  SelectSeq(bothDirectionsFrom(wg, graphEdges(wg), 1), positive)

\* srcNodes after the grouping loop: one datum per rewritten source, in
\* order of first appearance
groupIndex(groups, src) ==
  IF \E k \in DOMAIN groups : groups[k].src = src
  THEN CHOOSE k \in DOMAIN groups : groups[k].src = src
  ELSE 0

RECURSIVE srcNodesFrom(_, _, _, _, _)
srcNodesFrom(groups, scoring, boundaries, candidates, i) ==
  IF i > Len(candidates) THEN groups
  ELSE LET graphEdge == candidates[i]
           src == rewriteEpochNode(scoring, boundaries, graphEdge.src,
                                   graphEdge.timestamp)
           k == groupIndex(groups, src)
           withDatum ==
             IF k = 0
             THEN Append(groups, [src |-> src, totalOutWeight |-> Zero,
                                  outEdges |-> <<>>])
             ELSE groups
           at == IF k = 0 THEN Len(withDatum) ELSE k
           updated ==
             [withDatum EXCEPT
                ![at].totalOutWeight = RAdd(@, graphEdge.weight),
                ![at].outEdges = Append(@, graphEdge)]
       IN  srcNodesFrom(updated, scoring, boundaries, candidates, i + 1)

srcNodes(wg, scoring, boundaries) ==
  srcNodesFrom(<<>>, scoring, boundaries, unidirectionalGraphEdges(wg), 1)

\* Variant of totalOutPrOf that gives every source the epoch remainder.
totalOutPrOf_AlwaysEpoch(src, seedOpts, epochTransitionRemainder) ==
  epochTransitionRemainder

\* the share of a source's mass that goes to its base edges
totalOutPrOf(src, seedOpts, epochTransitionRemainder) ==
  IF hasPrefix(src, EPOCH_PREFIX)
  THEN epochTransitionRemainder
  ELSE RSub(One, seedOpts.alpha)

\* Variant of basePr that gives the base edges the whole mass of the source.
basePr_WholeMass(outEdge, totalOutWeight, totalOutPr) ==
  RDiv(outEdge.weight, totalOutWeight)

\* the transition probability of one base edge
basePr(outEdge, totalOutWeight, totalOutPr) ==
  RMul(RDiv(outEdge.weight, totalOutWeight), totalOutPr)

RECURSIVE addOutEdgesFrom(_, _, _, _, _, _)
addOutEdgesFrom(st, scoring, boundaries, datum, totalOutPr, i) ==
  IF i > Len(datum.outEdges) THEN st
  ELSE LET outEdge == datum.outEdges[i]
           pr == basePr(outEdge, datum.totalOutWeight, totalOutPr)
       IN  addOutEdgesFrom(
             addEdge(st, [address |-> outEdge.address,
                          reversed |-> outEdge.reversed,
                          src |-> rewriteEpochNode(scoring, boundaries,
                                     outEdge.src, outEdge.timestamp),
                          dst |-> rewriteEpochNode(scoring, boundaries,
                                     outEdge.dst, outEdge.timestamp),
                          transitionProbability |-> pr]),
             scoring, boundaries, datum, totalOutPr, i + 1)

RECURSIVE addBaseEdgesFrom(_, _, _, _, _, _, _)
addBaseEdgesFrom(st, scoring, boundaries, seedOpts, remainder, groups, k) ==
  IF k > Len(groups) THEN st
  ELSE addBaseEdgesFrom(
         addOutEdgesFrom(st, scoring, boundaries, groups[k],
                         totalOutPrOf(groups[k].src, seedOpts, remainder), 1),
         scoring, boundaries, seedOpts, remainder, groups, k + 1)

\* "Add graph edges"
addBaseEdges(st, wg, scoring, boundaries, seedOpts, remainder) ==
  addBaseEdgesFrom(st, scoring, boundaries, seedOpts, remainder,
                   srcNodes(wg, scoring, boundaries), 1)

\* one iteration of "Add radiation edges"
addRadiationEdge(st, node) ==
  IF st.err # "" THEN st
  ELSE IF node.address = SEED_ADDRESS THEN st
  ELSE IF ~hasPrefix(node.address, EPOCH_PREFIX)
          /\ hasPrefix(node.address, CORE_NODE_PREFIX)
  THEN [st EXCEPT !.err = "invariant violation: unknown core node"]
  ELSE LET type == IF hasPrefix(node.address, EPOCH_PREFIX)
                   THEN EPOCH_RADIATION
                   ELSE CONTRIBUTION_RADIATION
       IN  addEdge(st, [address |-> type \o node.address,
                        reversed |-> FALSE,
                        src |-> node.address,
                        dst |-> SEED_ADDRESS,
                        transitionProbability |->
                          RSub(One, outMass(st.masses, node.address))])

RECURSIVE addRadiationFrom(_, _, _)
addRadiationFrom(st, nodes, i) ==
  IF i > Len(nodes) THEN st
  ELSE addRadiationFrom(addRadiationEdge(st, nodes[i]), nodes, i + 1)

\* "Add radiation edges": the loop runs over the nodes present when it starts
addRadiationEdges(st) == addRadiationFrom(st, st.nodes, 1)

----------------------------------------------------------------------------
(* toMarkovChain *)

\* The parts of the node addresses of the model in the order of their
\* UTF-16 code units, which is the order of the address strings that
\* Array.prototype.sort compares ("-" < digits < upper case < lower case).
CodeUnitOrder ==
  <<"-Infinity", "0", "1", "2", "3", "4", "5", "6", "7", "8", "9",
    "A", "B", "EPOCH", "Infinity", "SEED", "core", "sourcecred", "u", "x">>

partRank(part) ==
  CHOOSE k \in DOMAIN CodeUnitOrder : CodeUnitOrder[k] = part

\* a < b for two address strings: the parts are compared in turn, and an
\* address sorts before those it is a proper prefix of, the separator being
\* the lowest code unit
RECURSIVE addressLessFrom(_, _, _)
addressLessFrom(a, b, i) ==
  IF i > Len(a) THEN i <= Len(b)
  ELSE IF i > Len(b) THEN FALSE
  ELSE IF a[i] = b[i] THEN addressLessFrom(a, b, i + 1)
  ELSE partRank(a[i]) < partRank(b[i])

addressLess(a, b) == addressLessFrom(a, b, 1)

\* Variant of sortAddresses that leaves the keys in insertion order.
sortAddresses_Unsorted(keys) == keys

\* Array.from(this._nodes.keys()).sort()
RECURSIVE sortAddresses(_)
sortAddresses(keys) ==
  IF Len(keys) = 0 THEN <<>>
  ELSE LET rest == sortAddresses(SubSeq(keys, 2, Len(keys)))
           x == keys[1]
           below == Cardinality({i \in DOMAIN rest : addressLess(rest[i], x)})
       IN  SubSeq(rest, 1, below) \o <<x>> \o SubSeq(rest, below + 1, Len(rest))

\* nodeIndex.get(address): the 0-based index into nodeOrder, <<>> for
\* undefined
nodeIndexGet(nodeOrder, address) ==
  IF \E k \in DOMAIN nodeOrder : nodeOrder[k] = address
  THEN <<(CHOOSE k \in DOMAIN nodeOrder : nodeOrder[k] = address) - 1>>
  ELSE <<>>

\* nodeOutMasses after the two loops of "Check that out-edges sum to about
\* 1": 0 for every node, plus the probability of every edge at its src;
\* NullUtil.get throws when the src of an edge is not a key
RECURSIVE nodeOutMassesFrom(_, _, _)
nodeOutMassesFrom(acc, edges, i) ==
  IF i > Len(edges) \/ acc.err # "" THEN acc
  ELSE LET a == edges[i].src
       IN  IF a \notin DOMAIN acc.masses
           THEN [acc EXCEPT !.err = "NullUtil.get: null or undefined"]
           ELSE nodeOutMassesFrom(
                  [acc EXCEPT !.masses[a] =
                     RAdd(@, edges[i].transitionProbability)],
                  edges, i + 1)

nodeOutMassesOf(g) ==
  nodeOutMassesFrom(
    [err |-> "",
     masses |-> [a \in {g.nodes[i].address : i \in DOMAIN g.nodes} |-> Zero]],
    g.edges, 1)

\* Variant of discrepancyTooLarge without Math.abs.
discrepancyTooLarge_NoAbs(mass) ==
  RLt(R(1, 1000), RSub(mass, One))

\* Math.abs(outMass - 1) > 1e-3
discrepancyTooLarge(mass) ==
  LET discrepancy == RSub(mass, One)
      abs == IF RLt(discrepancy, Zero) THEN RSub(Zero, discrepancy)
             ELSE discrepancy
  IN  RLt(R(1, 1000), abs)

\* the entry of the chain for the node at addr
chainEntry(g, nodeOrder, addr) ==
  LET into(e) == e.dst = addr
      inEdges == SelectSeq(g.edges, into)
      known(e) == nodeIndexGet(nodeOrder, e.src) # <<>>
  IN  IF \E i \in DOMAIN inEdges : ~known(inEdges[i])
      THEN [err |-> "unknown src", neighbor |-> <<>>, weight |-> <<>>]
      ELSE [err |-> "",
            neighbor |-> [i \in DOMAIN inEdges |->
                            nodeIndexGet(nodeOrder, inEdges[i].src)[1]],
            weight |-> [i \in DOMAIN inEdges |->
                          inEdges[i].transitionProbability]]

\* no chain: toMarkovChain has not been called
NoChain == [status |-> "none", err |-> "", nodeOrder |-> <<>>, chain |-> <<>>]

\* what a call of toMarkovChain that throws leaves behind
ChainThrown(err) ==
  [status |-> "thrown", err |-> err, nodeOrder |-> <<>>, chain |-> <<>>]

toMarkovChain(g) ==
  LET keys == [i \in DOMAIN g.nodes |-> g.nodes[i].address]
      nodeOrder == sortAddresses(keys)
      outMasses == nodeOutMassesOf(g)
      entries == [k \in DOMAIN nodeOrder |->
                    chainEntry(g, nodeOrder, nodeOrder[k])]
  IN  IF outMasses.err # "" THEN ChainThrown(outMasses.err)
      ELSE IF \E a \in DOMAIN outMasses.masses :
                discrepancyTooLarge(outMasses.masses[a])
      THEN ChainThrown("Transition weights do not sum to 1.0")
      ELSE IF \E k \in DOMAIN entries : entries[k].err # ""
      THEN ChainThrown("unknown src")
      ELSE [status |-> "ok", err |-> "", nodeOrder |-> nodeOrder,
            chain |-> [k \in DOMAIN entries |->
                         [neighbor |-> entries[k].neighbor,
                          weight |-> entries[k].weight]]]

----------------------------------------------------------------------------
(* toJSON and fromJSON *)

COMPAT_INFO == [type |-> "sourcecred/markovProcessGraph", version |-> "0.1.0"]

\* An object is the sequence of its properties [key, value] in property
\* order; the keys are address strings, never integer-like, so the order is
\* the insertion order.
\* object[key] = value: the property is replaced where it is, or added last
objectSet(object, key, value) ==
  IF \E i \in DOMAIN object : object[i].key = key
  THEN [i \in DOMAIN object |->
          IF object[i].key = key THEN [key |-> key, value |-> value]
          ELSE object[i]]
  ELSE Append(object, [key |-> key, value |-> value])

\* MapUtil.toObject of _nodes and of _edges: result[k] = v for every entry
\* of the map, the key of a node being its address and the key of an edge
\* its rawEdgeAddress
RECURSIVE nodesToObject(_)
nodesToObject(nodes) ==
  IF Len(nodes) = 0 THEN <<>>
  ELSE objectSet(nodesToObject(SubSeq(nodes, 1, Len(nodes) - 1)),
                 nodes[Len(nodes)].address, nodes[Len(nodes)])
RECURSIVE edgesToObject(_)
edgesToObject(edges) ==
  IF Len(edges) = 0 THEN <<>>
  ELSE objectSet(edgesToObject(SubSeq(edges, 1, Len(edges) - 1)),
                 rawEdgeAddress(edges[Len(edges)]), edges[Len(edges)])

\* Variant of fromObject that loses the last property.
fromObject_DropLast(object) ==
  [i \in 1..(Len(object) - 1) |-> object[i].value]

\* MapUtil.fromObject: the map of the properties of the object
fromObject(object) == [i \in DOMAIN object |-> object[i].value]

\* new Set(array), Array.from(set): the elements without repeats, in order
RECURSIVE withoutRepeats(_)
withoutRepeats(xs) ==
  IF Len(xs) = 0 THEN <<>>
  ELSE LET init == withoutRepeats(SubSeq(xs, 1, Len(xs) - 1))
           x == xs[Len(xs)]
       IN  IF \E i \in DOMAIN init : init[i] = x THEN init
           ELSE Append(init, x)

\* toCompat(compatInfo, data)
toCompat(compatInfo, data) ==
  [type |-> compatInfo.type, version |-> compatInfo.version, payload |-> data]

\* fromCompat(compatInfo, j): the payload, or the error thrown for another
\* type or version
fromCompat(compatInfo, j) ==
  IF j.type # compatInfo.type
  THEN [err |-> "Expected type to be " \o compatInfo.type, data |-> j.payload]
  ELSE IF j.version # compatInfo.version
  THEN [err |-> "Unsupported version", data |-> j.payload]
  ELSE [err |-> "", data |-> j.payload]

toJSON(g) ==
  toCompat(COMPAT_INFO,
           [nodes |-> nodesToObject(g.nodes),
            edges |-> edgesToObject(g.edges),
            scoringAddresses |-> g.scoringAddresses])

fromJSON(j) ==
  LET r == fromCompat(COMPAT_INFO, j)
  IN  IF r.err # ""
      THEN [err |-> r.err,
            graph |-> [nodes |-> <<>>, edges |-> <<>>,
                       scoringAddresses |-> <<>>]]
      ELSE [err |-> "",
            graph |-> [nodes |-> fromObject(r.data.nodes),
                       edges |-> fromObject(r.data.edges),
                       scoringAddresses |->
                         withoutRepeats(r.data.scoringAddresses)]]

----------------------------------------------------------------------------
(* Inputs of MarkovProcessGraph.new explored by the model *)

NodeA == <<"A">>
NodeU == <<"u", "1">>
NodeV == <<"u", "2">>
UserPrefix == <<"u">>
EdgeE1 == <<"e", "1">>
EdgeE2 == <<"e", "2">>
Absent == 0 - 2

\* The weighted graph with the given weights of the nodes A, u/1 and u/2
\* (Absent: no such node)
\* and the given edges (a sequence of records with address, src, dst,
\* timestampMs, forwards, backwards).
WeightedGraph(weightA, weightU, weightV, edges) ==
  LET weightOf == [a \in {NodeA, NodeU, NodeV} |->
                     IF a = NodeA THEN weightA
                     ELSE IF a = NodeU THEN weightU ELSE weightV]
      present(a) == weightOf[a] # Absent
      nodes == SelectSeq(<<NodeA, NodeU, NodeV>>, present)
  IN  [graph |->
         [nodes |-> [i \in DOMAIN nodes |->
                       [address |-> nodes[i], description |-> "node"]],
          edges |-> [i \in DOMAIN edges |->
                       [address |-> edges[i].address,
                        src |-> edges[i].src,
                        dst |-> edges[i].dst,
                        timestampMs |-> edges[i].timestampMs]]],
       weights |->
         [nodes |-> [a \in {nodes[i] : i \in DOMAIN nodes} |-> weightOf[a]],
          edges |-> [a \in {edges[i].address : i \in DOMAIN edges} |->
                       LET e == CHOOSE x \in {edges[i] : i \in DOMAIN edges} :
                                  x.address = a
                       IN  [forwards |-> e.forwards,
                            backwards |-> e.backwards]]]]

Edge(address, src, dst, timestampMs, forwards, backwards) ==
  [address |-> address, src |-> src, dst |-> dst,
   timestampMs |-> timestampMs, forwards |-> forwards,
   backwards |-> backwards]

Input(graph, what, alpha, beta, gammaForward, gammaBackward) ==
  [wg |-> graph,
   fibration |-> [what |-> what, beta |-> beta,
                  gammaForward |-> gammaForward,
                  gammaBackward |-> gammaBackward],
   seed |-> [alpha |-> alpha]]

\* Parameter sweep: every combination of teleportation parameters in
\* -1/Den .. MaxP/Den, on a graph without edges and on a graph with one
\* bidirectional edge between a plain node and a scoring node.
SweptProbabilities == {R(k, Den) : k \in (0 - 1)..MaxP}
SmallGraphs ==
  {WeightedGraph(1, Absent, Absent, <<>>),
   WeightedGraph(1, 2, Absent, <<Edge(EdgeE1, NodeA, NodeU, 1, 1, 1)>>)}
ParameterSweep ==
  {Input(g, {UserPrefix}, a, b, gf, gb) :
     g \in SmallGraphs, a \in SweptProbabilities, b \in SweptProbabilities,
     gf \in SweptProbabilities, gb \in SweptProbabilities}

\* Node sweep: every combination of presence of the nodes, node weight in
\* -1..MaxW and scoring prefixes, with no edge or one edge from A to u/1
\* (dangling when an endpoint is absent).
NodeWeights == {Absent} \cup ((0 - 1)..MaxW)
NodeSweep ==
  {Input(WeightedGraph(wa, wu, wv, es), what,
         R(1, 16), R(2, 16), R(3, 16), R(4, 16)) :
     wa \in NodeWeights, wu \in NodeWeights, wv \in NodeWeights,
     es \in {<<>>, <<Edge(EdgeE1, NodeA, NodeU, 1, 1, 1)>>},
     what \in {{}, {UserPrefix}}}

\* Edge sweep: up to two edges with every combination of endpoints,
\* timestamp in 0..MaxTs and weights in 0..MaxW, between the plain node A
\* (weight 1) and the scoring node u/1 (weight 2); the second edge has no
\* backward weight.
EdgeChoices(address) ==
  {Edge(address, s, d, t, f, b) :
     s \in {NodeA, NodeU}, d \in {NodeA, NodeU}, t \in 0..MaxTs,
     f \in 0..MaxW, b \in 0..MaxW}
ForwardEdgeChoices(address) ==
  {Edge(address, s, d, t, f, 0) :
     s \in {NodeA, NodeU}, d \in {NodeA, NodeU}, t \in 0..MaxTs,
     f \in 0..MaxW}
EdgeSequences ==
  {<<>>} \cup {<<e1>> : e1 \in EdgeChoices(EdgeE1)}
         \cup {<<e1, e2>> : e1 \in EdgeChoices(EdgeE1),
                            e2 \in ForwardEdgeChoices(EdgeE2)}
EdgeSweep ==
  {Input(WeightedGraph(1, 2, Absent, es), {UserPrefix},
         R(1, 16), R(2, 16), R(3, 16), R(4, 16)) : es \in EdgeSequences}

\* Core sweep: the plain node A (weight 1) and the scoring node u/1
\* (weight 2), with or without an edge between them at timestamp 0, and one
\* more node whose address is under, at or next to the core prefix.
CoreSweepAddresses ==
  {SEED_ADDRESS,
   CORE_NODE_PREFIX,
   CORE_NODE_PREFIX \o <<"x">>,
   EPOCH_PREFIX \o <<"0">> \o NodeU,
   EPOCH_PREFIX \o <<"2">> \o NodeU,
   <<"sourcecred">>,
   <<"sourcecred", "x">>}

\* WeightedGraph(1, 2, Absent, edges) with one more node of the given
\* address and weight, in address order
WeightedGraphWith(address, weight, edges) ==
  LET base == WeightedGraph(1, 2, Absent, edges)
  IN  [graph |->
         [nodes |-> <<base.graph.nodes[1],
                      [address |-> address, description |-> "node"],
                      base.graph.nodes[2]>>,
          edges |-> base.graph.edges],
       weights |->
         [nodes |-> [a \in DOMAIN base.weights.nodes \cup {address} |->
                       IF a = address THEN weight ELSE base.weights.nodes[a]],
          edges |-> base.weights.edges]]

CoreSweep ==
  {Input(WeightedGraphWith(a, w, es), {UserPrefix},
         R(1, 16), R(2, 16), R(3, 16), R(4, 16)) :
     a \in CoreSweepAddresses, w \in 0..MaxW,
     es \in {<<>>, <<Edge(EdgeE1, NodeA, NodeU, 0, 1, 1)>>}}

Inputs == ParameterSweep \cup NodeSweep \cup EdgeSweep \cup CoreSweep

\* JSON sweep: the values given to fromJSON without a graph to start from.
\* The nodes are A, or A and B; there are up to two edges, each from A or B
\* to A or B with a probability of JsonProbabilities, so an edge may name a
\* node the payload does not have; one value has another version.
NodeB == <<"B">>
JsonProbabilities == {Zero, R(1, 2), One, R(1999, 2000), R(499, 500)}
JsonNode(address) == [address |-> address, description |-> "node", mint |-> One]
JsonEdge(address, src, dst, pr) ==
  [address |-> address, reversed |-> FALSE, src |-> src, dst |-> dst,
   transitionProbability |-> pr]
JsonEdgeChoices(address) ==
  {JsonEdge(address, s, d, pr) :
     s \in {NodeA, NodeB}, d \in {NodeA, NodeB}, pr \in JsonProbabilities}
JsonEdgeSequences ==
  {<<>>} \cup {<<e1>> : e1 \in JsonEdgeChoices(EdgeE1)}
         \cup {<<e1, e2>> : e1 \in JsonEdgeChoices(EdgeE1),
                            e2 \in JsonEdgeChoices(EdgeE2)}
JsonSweep ==
  {toCompat(COMPAT_INFO,
            [nodes |-> nodesToObject(ns), edges |-> edgesToObject(es),
             scoringAddresses |-> <<>>]) :
     ns \in {<<JsonNode(NodeA)>>, <<JsonNode(NodeA), JsonNode(NodeB)>>},
     es \in JsonEdgeSequences}
  \cup {toCompat([type |-> COMPAT_INFO.type, version |-> "0.2.0"],
                 [nodes |-> nodesToObject(<<JsonNode(NodeA)>>),
                  edges |-> <<>>, scoringAddresses |-> <<>>])}

\* Arguments of the go command: up to MaxArgs arguments
MaxArgs == 3
GoArguments == {"--no-load", "--help", "load", "score"}
GoArgLists == UNION {[1..n -> GoArguments] : n \in 0..MaxArgs}

\* What a sub-command can do: resolve to an exit code in 0..MaxCode, or
\* reject, which leaves no exit code
MaxCode == 2
NoCode == 0 - 1
CommandOutcomes == (0..MaxCode) \cup {NoCode}

----------------------------------------------------------------------------
(* State: the arguments and the locals of MarkovProcessGraph.new, the      *)
(* position of the call (pc) and the graph it returns (mpg); the JSON      *)
(* value at hand (json) and the result of toMarkovChain (chain); the       *)
(* arguments, position, sub-command calls, output and result of the go     *)
(* command                                                                 *)

VARIABLES wg, fibration, seed, pc, error, _nodes, _edges, _nodeOutMasses,
          _scoringAddresses, epochTransitionRemainder, timeBoundaries, mpg,
          json, chain,
          goArgs, goPc, noLoad, goIndex, goCalls, goErr, goRet

goVars == <<goArgs, goPc, noLoad, goIndex, goCalls, goErr, goRet>>

vars == <<wg, fibration, seed, pc, error, _nodes, _edges, _nodeOutMasses,
          _scoringAddresses, epochTransitionRemainder, timeBoundaries, mpg,
          json, chain, goVars>>

args == <<wg, fibration, seed>>

\* the locals of new
locals == <<_nodes, _edges, _nodeOutMasses, _scoringAddresses,
            epochTransitionRemainder, timeBoundaries>>

\* no JSON value at hand
NoJson == [type |-> "", version |-> "",
           payload |-> [nodes |-> <<>>, edges |-> <<>>,
                        scoringAddresses |-> <<>>]]

\* the go command is not running
GoIdle ==
  /\ goArgs = <<>>
  /\ goPc = "idle"
  /\ noLoad = FALSE
  /\ goIndex = 0
  /\ goCalls = <<>>
  /\ goErr = <<>>
  /\ goRet = NoCode

\* no graph has been returned
NoGraph == [nodes |-> <<>>, edges |-> <<>>, scoringAddresses |-> <<>>]

\* the maps under construction, as the helpers take them
maps == [nodes |-> _nodes, edges |-> _edges, masses |-> _nodeOutMasses,
         err |-> ""]

\* continue at `next` with the maps st, or stop where the Error was thrown
Continue(st, next) ==
  /\ _nodes' = st.nodes
  /\ _edges' = st.edges
  /\ _nodeOutMasses' = st.masses
  /\ error' = st.err
  /\ pc' = IF st.err = "" THEN next ELSE "thrown"

\* the arguments of new while new is not called
NoInput ==
  Input(WeightedGraph(Absent, Absent, Absent, <<>>), {},
        Zero, Zero, Zero, Zero)

\* Either new is about to be called on an input, or fromJSON on a value.
Init ==
  /\ \/ /\ \E in \in Inputs :
            /\ wg = in.wg
            /\ fibration = in.fibration
            /\ seed = in.seed
        /\ pc = "new"
        /\ json = NoJson
     \/ /\ wg = NoInput.wg
        /\ fibration = NoInput.fibration
        /\ seed = NoInput.seed
        /\ pc = "fromJSON"
        /\ json \in JsonSweep
  /\ chain = NoChain
  /\ GoIdle
  /\ error = ""
  /\ _nodes = <<>>
  /\ _edges = <<>>
  /\ _nodeOutMasses = <<>>
  /\ _scoringAddresses = <<>>
  /\ epochTransitionRemainder = Zero
  /\ timeBoundaries = <<>>
  /\ mpg = NoGraph

\* new, lines 230-264: the scoring addresses, the parameter check and the
\* time boundaries
ComputeParameters ==
  /\ pc = "new"
  /\ LET r == epochTransitionRemainderOf(seed, fibration)
     IN  /\ _scoringAddresses' = _findScoringAddresses(wg, fibration.what)
         /\ epochTransitionRemainder' = r.result
         /\ timeBoundaries' = IF r.err = "" THEN timeBoundariesOf(wg) ELSE <<>>
         /\ error' = r.err
         /\ pc' = IF r.err = "" THEN "nodes" ELSE "thrown"
  /\ UNCHANGED <<args, _nodes, _edges, _nodeOutMasses, mpg, json, chain, goVars>>

\* new, lines 286-312: the seed node and the graph nodes
AddNodes ==
  /\ pc = "nodes"
  /\ Continue(addGraphNodes(addSeedNode(maps), wg), "epochs")
  /\ UNCHANGED <<args, _scoringAddresses, epochTransitionRemainder,
                 timeBoundaries, mpg, json, chain, goVars>>

\* new, lines 314-367: epoch nodes, payout edges and epoch webbing
AddEpochNodes ==
  /\ pc = "epochs"
  /\ Continue(addEpochNodes(maps, fibration, _scoringAddresses,
                            timeBoundaries), "minting")
  /\ UNCHANGED <<args, _scoringAddresses, epochTransitionRemainder,
                 timeBoundaries, mpg, json, chain, goVars>>

\* new, lines 369-394: minting edges
AddMintingEdges ==
  /\ pc = "minting"
  /\ Continue(addMintingEdges(maps), "edges")
  /\ UNCHANGED <<args, _scoringAddresses, epochTransitionRemainder,
                 timeBoundaries, mpg, json, chain, goVars>>

\* new, lines 417-483: base edges
AddBaseEdges ==
  /\ pc = "edges"
  /\ Continue(addBaseEdges(maps, wg, _scoringAddresses, timeBoundaries,
                           seed, epochTransitionRemainder), "radiation")
  /\ UNCHANGED <<args, _scoringAddresses, epochTransitionRemainder,
                 timeBoundaries, mpg, json, chain, goVars>>

\* new, lines 485-509: radiation edges, and the graph is returned
AddRadiationEdges ==
  /\ pc = "radiation"
  /\ LET st == addRadiationEdges(maps)
     IN  /\ Continue(st, "returned")
         /\ mpg' = IF st.err = ""
                   THEN [nodes |-> st.nodes, edges |-> st.edges,
                         scoringAddresses |-> _scoringAddresses]
                   ELSE NoGraph
  /\ UNCHANGED <<args, _scoringAddresses, epochTransitionRemainder,
                 timeBoundaries, json, chain, goVars>>

\* toJSON on the graph new has returned
ToJSON ==
  /\ pc = "returned"
  /\ json' = toJSON(mpg)
  /\ pc' = "fromJSON"
  /\ UNCHANGED <<args, locals, error, mpg, chain, goVars>>

\* fromJSON on the JSON value at hand
FromJSON ==
  /\ pc = "fromJSON"
  /\ LET r == fromJSON(json)
     IN  /\ mpg' = r.graph
         /\ error' = r.err
         /\ pc' = IF r.err = "" THEN "loaded" ELSE "thrown"
  /\ UNCHANGED <<args, locals, json, chain, goVars>>

\* toMarkovChain on the graph at hand, returned by new or by fromJSON
ToMarkovChain ==
  /\ pc \in {"returned", "loaded"}
  /\ chain' = toMarkovChain(mpg)
  /\ error' = chain'.err
  /\ pc' = IF chain'.status = "ok" THEN "chained" ELSE "thrown"
  /\ UNCHANGED <<args, locals, mpg, json, goVars>>

Next ==
  \/ ComputeParameters
  \/ AddNodes
  \/ AddEpochNodes
  \/ AddMintingEdges
  \/ AddBaseEdges
  \/ AddRadiationEdges
  \/ ToJSON
  \/ FromJSON
  \/ ToMarkovChain

Spec == Init /\ [][Next]_vars

----------------------------------------------------------------------------
(* The go command *)

\* die(std, message): what std.err has received, and the exit code
die(stdErr, message) ==
  [err |-> Append(stdErr, "fatal: " \o message), ret |-> 1]

NO_LOAD_ARG == "--no-load"

commandSequence == <<"load", "graph", "score">>

\* Variant of parseArgs that looks at the first argument only.
parseArgs_FirstOnly(goArguments) ==
  IF Len(goArguments) >= 1 /\ goArguments[1] = NO_LOAD_ARG
  THEN [noLoad |-> TRUE, usage |-> FALSE]
  ELSE IF Len(goArguments) # 0 THEN [noLoad |-> FALSE, usage |-> TRUE]
  ELSE [noLoad |-> FALSE, usage |-> FALSE]

\* lines 18-23: noLoad, and whether the arguments are refused
parseArgs(goArguments) ==
  IF Len(goArguments) = 1 /\ goArguments[1] = NO_LOAD_ARG
  THEN [noLoad |-> TRUE, usage |-> FALSE]
  ELSE IF Len(goArguments) # 0 THEN [noLoad |-> FALSE, usage |-> TRUE]
  ELSE [noLoad |-> FALSE, usage |-> FALSE]

\* Variant of failed that takes every exit code for a success.
failed_Never(ret) == FALSE

\* line 34: ret !== 0
failed(ret) == ret # 0

\* the go command is called with an argument list, and nothing else runs
GoInit ==
  /\ wg = NoInput.wg
  /\ fibration = NoInput.fibration
  /\ seed = NoInput.seed
  /\ pc = "idle"
  /\ json = NoJson
  /\ chain = NoChain
  /\ error = ""
  /\ _nodes = <<>>
  /\ _edges = <<>>
  /\ _nodeOutMasses = <<>>
  /\ _scoringAddresses = <<>>
  /\ epochTransitionRemainder = Zero
  /\ timeBoundaries = <<>>
  /\ mpg = NoGraph
  /\ goArgs \in GoArgLists
  /\ goPc = "start"
  /\ noLoad = FALSE
  /\ goIndex = 0
  /\ goCalls = <<>>
  /\ goErr = <<>>
  /\ goRet = NoCode

mpgVars == <<args, locals, pc, error, mpg, json, chain>>

\* lines 18-23: the arguments are parsed
GoParse ==
  /\ goPc = "start"
  /\ LET parsed == parseArgs(goArgs)
         d == die(goErr, "usage: sourcecred go [--no-load]")
     IN  IF parsed.usage
         THEN /\ goErr' = d.err
              /\ goRet' = d.ret
              /\ goPc' = "returned"
              /\ UNCHANGED <<noLoad, goIndex>>
         ELSE /\ noLoad' = parsed.noLoad
              /\ goIndex' = 1
              /\ goPc' = "loop"
              /\ UNCHANGED <<goErr, goRet>>
  /\ UNCHANGED <<mpgVars, goArgs, goCalls>>

\* lines 31-33 and 38: the loop goes to its next command, skips it, calls it
\* with no arguments and waits for it, or is over and go returns 0
GoLoop ==
  /\ goPc = "loop"
  /\ IF goIndex > Len(commandSequence)
     THEN /\ goRet' = 0
          /\ goPc' = "returned"
          /\ UNCHANGED <<goIndex, goCalls>>
     ELSE IF commandSequence[goIndex] = "load" /\ noLoad
     THEN /\ goIndex' = goIndex + 1
          /\ UNCHANGED <<goPc, goCalls, goRet>>
     ELSE /\ goCalls' = Append(goCalls,
                               [name |-> commandSequence[goIndex],
                                args |-> <<>>,
                                status |-> "running", ret |-> NoCode])
          /\ goPc' = "await"
          /\ UNCHANGED <<goIndex, goRet>>
  /\ UNCHANGED <<mpgVars, goArgs, noLoad, goErr>>

\* lines 33-36: the command go waits for resolves to an exit code, on which
\* go dies or goes on, or rejects, and so does go
GoResume ==
  /\ goPc = "await"
  /\ \E outcome \in CommandOutcomes :
       LET name == commandSequence[goIndex]
           d == die(goErr, "go: failed on command " \o name)
       IN  IF outcome = NoCode
           THEN /\ goCalls' = [goCalls EXCEPT ![Len(goCalls)].status =
                                                "rejected"]
                /\ goPc' = "rejected"
                /\ UNCHANGED <<goIndex, goErr, goRet>>
           ELSE /\ goCalls' = [goCalls EXCEPT
                                 ![Len(goCalls)].status = "returned",
                                 ![Len(goCalls)].ret = outcome]
                /\ IF failed(outcome)
                   THEN /\ goErr' = d.err
                        /\ goRet' = d.ret
                        /\ goPc' = "returned"
                        /\ UNCHANGED goIndex
                   ELSE /\ goIndex' = goIndex + 1
                        /\ goPc' = "loop"
                        /\ UNCHANGED <<goErr, goRet>>
  /\ UNCHANGED <<mpgVars, goArgs, noLoad>>

GoNext ==
  \/ GoParse
  \/ GoLoop
  \/ GoResume

SpecGo == GoInit /\ [][GoNext]_vars

----------------------------------------------------------------------------
(* Vocabulary of the properties *)

Returned == pc = "returned"
\* no JSON value is at hand: new was called, and the graph, if there is
\* one, is the graph new returned
FromNew == json = NoJson
Thrown == pc = "thrown"

SeqToSet(xs) == {xs[i] : i \in DOMAIN xs}

RECURSIVE totalPrFrom(_, _)
totalPrFrom(edges, i) ==
  IF i > Len(edges) THEN Zero
  ELSE RAdd(edges[i].transitionProbability, totalPrFrom(edges, i + 1))
totalPr(edges) == totalPrFrom(edges, 1)

outEdgesOf(g, a) ==
  LET from(e) == e.src = a IN SelectSeq(g.edges, from)

isEpochNode(a) == hasPrefix(a, EPOCH_PREFIX)
\* the graph node an MPG node address stands for
baseNodeOf(a) == IF isEpochNode(a) THEN epochNodeAddressFromRaw(a).owner ELSE a

isScoring(g, a) == a \in SeqToSet(g.scoringAddresses)

\* a radiation edge is an edge to the seed; a base edge carries the
\* address of an input edge
isRadiationEdge(e) == e.dst = SEED_ADDRESS
isBaseEdge(e) ==
  e.address \in {wg.graph.edges[i].address : i \in DOMAIN wg.graph.edges}

baseEdgesOf(g) == SelectSeq(g.edges, isBaseEdge)

\* the input edge a base edge comes from, and its candidate in the edge's
\* direction
inputEdgeOf(e) ==
  CHOOSE x \in SeqToSet(wg.graph.edges) : x.address = e.address
inputSrcOf(e) == IF e.reversed THEN inputEdgeOf(e).dst ELSE inputEdgeOf(e).src
inputDstOf(e) == IF e.reversed THEN inputEdgeOf(e).src ELSE inputEdgeOf(e).dst
inputWeightOf(e) ==
  IF e.reversed
  THEN R(wg.weights.edges[e.address].backwards, 1)
  ELSE R(wg.weights.edges[e.address].forwards, 1)

Tolerance == R(1, 1000)
Near(x, y) == RLt(RSub(x, y), Tolerance) /\ RLt(RSub(y, x), Tolerance)

----------------------------------------------------------------------------
(* Properties *)

\* C1: in every graph returned by new, the transition probabilities of the
\* edges leaving any node (seed, base or epoch) sum to 1 within 1e-3.
C1_Stochastic ==
  Returned =>
    \A n \in SeqToSet(mpg.nodes) :
      Near(totalPr(outEdgesOf(mpg, n.address)), One)

\* C1 witness: a returned graph with an epoch node that has a base edge
\* besides its payout, webbing and radiation edges.
C1_Witness ==
  /\ Returned
  /\ \E e \in SeqToSet(baseEdgesOf(mpg)) :
       /\ isEpochNode(e.src)
       /\ Len(outEdgesOf(mpg, e.src)) >= 4

\* C2: new returns no graph when alpha, beta, gammaForward or gammaBackward
\* is negative, or when their sum exceeds 1.
C2_RejectsBadParameters ==
  LET alpha == seed.alpha
      beta == fibration.beta
      gammaForward == fibration.gammaForward
      gammaBackward == fibration.gammaBackward
      bad == \/ RLt(alpha, Zero) \/ RLt(beta, Zero)
             \/ RLt(gammaForward, Zero) \/ RLt(gammaBackward, Zero)
             \/ RLt(One, RAdd(RAdd(RAdd(alpha, beta), gammaForward),
                              gammaBackward))
  IN  bad => ~Returned

\* the start of the half-open interval [b_i, b_{i+1}) of the time boundaries
\* that contains t: the largest boundary b with b <= t
intervalStartOf(t) ==
  CHOOSE b \in SeqToSet(timeBoundaries) :
    /\ b <= t
    /\ \A c \in SeqToSet(timeBoundaries) : c <= t => c <= b

epochNodeOf(owner, t) ==
  epochNodeAddressToRaw([type |-> "EPOCH_NODE", owner |-> owner,
                         epochStart |-> intervalStartOf(t)])

\* C3: in a returned graph, a base edge with timestamp t whose endpoint in
\* the input graph is a scoring address has, in place of that endpoint, the
\* epoch node whose epochStart is the largest boundary b with b <= t, also
\* when t is equal to a boundary.
C3_EpochOfTimestamp ==
  Returned =>
    \A e \in SeqToSet(baseEdgesOf(mpg)) :
      LET t == inputEdgeOf(e).timestampMs
      IN  /\ isScoring(mpg, inputSrcOf(e)) =>
               e.src = epochNodeOf(inputSrcOf(e), t)
          /\ isScoring(mpg, inputDstOf(e)) =>
               e.dst = epochNodeOf(inputDstOf(e), t)

\* C4: in a returned graph no base edge has a scoring address as src or
\* dst: a scoring endpoint has become an epoch node owned by that address,
\* any other endpoint is the base node itself.
C4_EpochRouting ==
  Returned =>
    \A e \in SeqToSet(baseEdgesOf(mpg)) :
      /\ ~isScoring(mpg, e.src)
      /\ ~isScoring(mpg, e.dst)
      /\ IF isScoring(mpg, inputSrcOf(e))
         THEN isEpochNode(e.src)
              /\ epochNodeAddressFromRaw(e.src).owner = inputSrcOf(e)
         ELSE e.src = inputSrcOf(e)
      /\ IF isScoring(mpg, inputDstOf(e))
         THEN isEpochNode(e.dst)
              /\ epochNodeAddressFromRaw(e.dst).owner = inputDstOf(e)
         ELSE e.dst = inputDstOf(e)

\* C4 witness: a returned graph with a base edge from a scoring address to
\* a plain node and a base edge from a plain node to a scoring address.
C4_Witness ==
  /\ Returned
  /\ \E e \in SeqToSet(baseEdgesOf(mpg)) :
       isScoring(mpg, inputSrcOf(e)) /\ ~isScoring(mpg, inputDstOf(e))
  /\ \E e \in SeqToSet(baseEdgesOf(mpg)) :
       ~isScoring(mpg, inputSrcOf(e)) /\ isScoring(mpg, inputDstOf(e))

\* the base edges of g leaving a
baseOutEdgesOf(g, a) ==
  LET from(e) == e.src = a /\ isBaseEdge(e) IN SelectSeq(g.edges, from)

RECURSIVE totalInputWeightFrom(_, _)
totalInputWeightFrom(edges, i) ==
  IF i > Len(edges) THEN Zero
  ELSE RAdd(inputWeightOf(edges[i]), totalInputWeightFrom(edges, i + 1))

\* the mass the parameters leave to the base edges of a source
remainderOf(src) ==
  IF isEpochNode(src)
  THEN RSub(One, RAdd(RAdd(RAdd(seed.alpha, fibration.beta),
                           fibration.gammaForward), fibration.gammaBackward))
  ELSE RSub(One, seed.alpha)

\* C5: in a returned graph, a base edge of weight w whose source has base
\* edges of total weight W has probability (w / W) * remainder, where the
\* remainder is 1 - (alpha + beta + gammaForward + gammaBackward) for an
\* epoch source and 1 - alpha for any other, and the base edges of a source
\* sum to that remainder.
C5_BaseEdgeShares ==
  Returned =>
    \A e \in SeqToSet(baseEdgesOf(mpg)) :
      LET group == baseOutEdgesOf(mpg, e.src)
          W == totalInputWeightFrom(group, 1)
      IN  /\ e.transitionProbability =
               RMul(RDiv(inputWeightOf(e), W), remainderOf(e.src))
          /\ totalPr(group) = remainderOf(e.src)

\* C5 witness: a returned graph where a plain node has two parallel base
\* edges of different weights and an epoch node has a base edge.
C5_Witness ==
  /\ Returned
  /\ \E e, f \in SeqToSet(baseEdgesOf(mpg)) :
       /\ ~isEpochNode(e.src)
       /\ e.src = f.src /\ e.dst = f.dst /\ e.address # f.address
       /\ inputWeightOf(e) # inputWeightOf(f)
  /\ \E e \in SeqToSet(baseEdgesOf(mpg)) : isEpochNode(e.src)

\* the pairs (input edge, direction) that new turns into base edges: the
\* non-dangling edges with their directions of positive weight
positiveDirections ==
  {<<x.address, d>> : x \in SeqToSet(graphEdges(wg)), d \in BOOLEAN} \cap
  {<<a, d>> \in (DOMAIN wg.weights.edges) \X BOOLEAN :
     IF d THEN wg.weights.edges[a].backwards > 0
          ELSE wg.weights.edges[a].forwards > 0}

\* C6: the base edges of a returned graph correspond one to one to the
\* pairs (non-dangling input edge, direction of positive weight): the edge
\* of a pair has the input edge's address, reversed = (direction is
\* backward) and the input endpoints, swapped for the backward direction;
\* no two base edges come from the same pair.
C6_BaseEdgesOneToOne ==
  Returned =>
    LET base == baseEdgesOf(mpg)
    IN  /\ {<<base[i].address, base[i].reversed>> : i \in DOMAIN base}
             = positiveDirections
        /\ Len(base) = Cardinality(positiveDirections)
        /\ \A i \in DOMAIN base :
             LET x == inputEdgeOf(base[i])
             IN  /\ baseNodeOf(base[i].src) =
                      (IF base[i].reversed THEN x.dst ELSE x.src)
                 /\ baseNodeOf(base[i].dst) =
                      (IF base[i].reversed THEN x.src ELSE x.dst)

\* C6 witness: a returned graph built from two parallel input edges, one
\* with both weights positive and one with a zero backward weight.
C6_Witness ==
  /\ Returned
  /\ Len(wg.graph.edges) = 2
  /\ wg.graph.edges[1].src = wg.graph.edges[2].src
  /\ wg.graph.edges[1].dst = wg.graph.edges[2].dst
  /\ wg.graph.edges[1].src # wg.graph.edges[1].dst
  /\ wg.weights.edges[EdgeE1].forwards > 0
  /\ wg.weights.edges[EdgeE1].backwards > 0
  /\ wg.weights.edges[EdgeE2].forwards > 0
  /\ wg.weights.edges[EdgeE2].backwards = 0
  /\ Len(baseEdgesOf(mpg)) = 3

\* the nodes of g that mint
mintingNodes(g) ==
  LET positive(n) == RLt(Zero, n.mint) IN SelectSeq(g.nodes, positive)

\* C7: in a returned graph the edges leaving the seed are exactly one
\* minting edge per node of positive mint, each with probability
\* mint / total mint; none goes to a node of mint 0 (an epoch node, the
\* seed) and together they sum to 1.
C7_MintingEdges ==
  Returned =>
    LET out == outEdgesOf(mpg, SEED_ADDRESS)
        minting == mintingNodes(mpg)
        total == sumMint(minting, 1)
    IN  /\ Len(out) = Len(minting)
        /\ {out[i].dst : i \in DOMAIN out}
             = {minting[i].address : i \in DOMAIN minting}
        /\ \A i \in DOMAIN out :
             /\ ~isEpochNode(out[i].dst)
             /\ out[i].dst # SEED_ADDRESS
             /\ \E n \in SeqToSet(mpg.nodes) :
                  /\ n.address = out[i].dst
                  /\ RLt(Zero, n.mint)
                  /\ out[i].transitionProbability = RDiv(n.mint, total)
        /\ totalPr(out) = One

\* C7 witness: a returned graph with two minting nodes of different mint
\* and epoch nodes.
C7_Witness ==
  /\ Returned
  /\ Len(outEdgesOf(mpg, SEED_ADDRESS)) = 2
  /\ \E m, n \in SeqToSet(mpg.nodes) : RLt(Zero, m.mint) /\ RLt(m.mint, n.mint)
  /\ \E n \in SeqToSet(mpg.nodes) : isEpochNode(n.address)

\* C8: in a returned graph every node but the seed has exactly one
\* radiation edge (an edge to the seed), whose probability is 1 minus the
\* sum of the probabilities of its other outgoing edges, so it has an
\* outgoing edge; the seed has no radiation edge.
C8_Radiation ==
  Returned =>
    \A n \in SeqToSet(mpg.nodes) :
      LET out == outEdgesOf(mpg, n.address)
          radiation == SelectSeq(out, isRadiationEdge)
          notRadiation(e) == ~isRadiationEdge(e)
          others == SelectSeq(out, notRadiation)
      IN  IF n.address = SEED_ADDRESS
          THEN Len(radiation) = 0
          ELSE /\ Len(radiation) = 1
               /\ radiation[1].transitionProbability =
                    RSub(One, totalPr(others))
               /\ Len(out) >= 1

\* C8 witness: a returned graph with a node whose only outgoing edge is its
\* radiation edge and a node with a radiation edge of probability below 1.
C8_Witness ==
  /\ Returned
  /\ \E n \in SeqToSet(mpg.nodes) :
       /\ n.address # SEED_ADDRESS
       /\ Len(outEdgesOf(mpg, n.address)) = 1
  /\ \E e \in SeqToSet(mpg.edges) :
       /\ isRadiationEdge(e)
       /\ RLt(e.transitionProbability, One)
       /\ RLt(Zero, e.transitionProbability)

\* the epoch nodes, payout edges and webbing edges of a graph
epochNodesOf(g) ==
  LET epoch(n) == isEpochNode(n.address) IN SelectSeq(g.nodes, epoch)
payoutEdgesOf(g) ==
  LET payout(e) == isEpochNode(e.src) /\ isScoring(g, e.dst)
  IN  SelectSeq(g.edges, payout)
webbingEdgesOf(g) ==
  LET webbing(e) ==
        /\ isEpochNode(e.src) /\ isEpochNode(e.dst)
        /\ epochNodeAddressFromRaw(e.src).owner
             = epochNodeAddressFromRaw(e.dst).owner
        /\ e.src # e.dst
  IN  SelectSeq(g.edges, webbing)
edgesBetween(g, a, b) ==
  LET between(e) == e.src = a /\ e.dst = b IN SelectSeq(g.edges, between)

\* C9: a returned graph has, for every scoring address s and every
\* boundary b of timeBoundaries (the two infinite ones included), exactly
\* one epoch node, of mint 0, and exactly one payout edge from it to s, of
\* probability beta; for every two consecutive boundaries one webbing edge
\* from the earlier epoch node to the later of probability gammaForward and
\* one from the later to the earlier of probability gammaBackward; and no
\* other epoch node, payout edge or webbing edge.
C9_EpochStructure ==
  Returned =>
    LET S == SeqToSet(mpg.scoringAddresses)
        K == Len(timeBoundaries)
        epoch(s, j) ==
          epochNodeAddressToRaw([type |-> "EPOCH_NODE", owner |-> s,
                                 epochStart |-> timeBoundaries[j]])
    IN  /\ \A s \in S : \A j \in 1..K :
             /\ \E n \in SeqToSet(mpg.nodes) :
                  n.address = epoch(s, j) /\ n.mint = Zero
             /\ LET payout == edgesBetween(mpg, epoch(s, j), s)
                IN  /\ Len(payout) = 1
                    /\ payout[1].transitionProbability = fibration.beta
        /\ \A s \in S : \A j \in 1..(K - 1) :
             LET forward == edgesBetween(mpg, epoch(s, j), epoch(s, j + 1))
                 backward == edgesBetween(mpg, epoch(s, j + 1), epoch(s, j))
             IN  /\ Len(forward) = 1
                 /\ forward[1].transitionProbability = fibration.gammaForward
                 /\ Len(backward) = 1
                 /\ backward[1].transitionProbability = fibration.gammaBackward
        /\ Len(epochNodesOf(mpg)) = Cardinality(S) * K
        /\ Len(payoutEdgesOf(mpg)) = Cardinality(S) * K
        /\ Len(webbingEdgesOf(mpg)) = 2 * Cardinality(S) * (K - 1)

\* C9 witness: a returned graph with two scoring addresses and a finite
\* boundary between the infinite ones.
C9_Witness ==
  /\ Returned
  /\ Len(mpg.scoringAddresses) = 2
  /\ Len(timeBoundaries) >= 4

\* C10: new returns no graph when no node of the input graph has a
\* positive weight (all weights are 0, or there is no node).
C10_NoMintNoGraph ==
  (FromNew /\ \A n \in SeqToSet(wg.graph.nodes) :
                wg.weights.nodes[n.address] <= 0)
    => (~Returned /\ mpg = NoGraph)

\* C10 witness: new has thrown for want of a minting node on a graph whose
\* nodes all have weight 0.
C10_Witness ==
  /\ Thrown
  /\ error = "No outflow from seed"
  /\ Len(wg.graph.nodes) >= 1
  /\ \A n \in SeqToSet(wg.graph.nodes) : wg.weights.nodes[n.address] = 0

\* C10 second case: new has thrown on the graph without nodes.
C10_EmptyGraphThrows ==
  Len(wg.graph.nodes) = 0 /\ Thrown /\ error = "No outflow from seed"

\* the epoch node addresses new creates: one per scoring address and
\* boundary
createdEpochNodes ==
  {epochNodeAddressToRaw([type |-> "EPOCH_NODE", owner |-> s,
                          epochStart |-> b]) :
     s \in SeqToSet(_scoringAddresses), b \in SeqToSet(timeBoundaries)}

\* C11: new returns no graph when a node of the input graph has an address
\* under the core prefix (the seed address and epoch-shaped addresses
\* included); the nodes of a returned graph under the core prefix are the
\* one seed node and the epoch nodes new created.
C11_CorePrefixReserved ==
  /\ (\E n \in SeqToSet(wg.graph.nodes) :
        hasPrefix(n.address, CORE_NODE_PREFIX)) => ~Returned
  /\ Returned =>
       /\ Cardinality({i \in DOMAIN mpg.nodes :
                         mpg.nodes[i].address = SEED_ADDRESS}) = 1
       /\ \A n \in SeqToSet(mpg.nodes) :
            hasPrefix(n.address, CORE_NODE_PREFIX) =>
              \/ n.address = SEED_ADDRESS
              \/ n.address \in createdEpochNodes

\* C11 witness: new has thrown on an input graph with an epoch-shaped node
\* address that none of the epoch nodes of the graph would have.
C11_Witness ==
  /\ Thrown
  /\ error = "Unexpected core node in underlying graph"
  /\ \E n \in SeqToSet(wg.graph.nodes) :
       /\ hasPrefix(n.address, EPOCH_PREFIX)
       /\ n.address \notin
            {epochNodeAddressToRaw([type |-> "EPOCH_NODE", owner |-> NodeU,
                                    epochStart |-> b]) :
               b \in SeqToSet(timeBoundaries)}

\* the graph toMarkovChain was called on is the graph at hand
Chained == chain.status # "none"

\* a sum of probabilities that differs from 1 by more than 1e-3
offByMoreThanTolerance(mass) ==
  RLt(mass, RSub(One, Tolerance)) \/ RLt(RAdd(One, Tolerance), mass)

\* C12: toMarkovChain, on a graph returned by new or by fromJSON, throws and
\* returns neither a node order nor chain entries whenever the probabilities
\* of the edges leaving some node of the graph sum to a value more than 1e-3
\* away from 1, a node without any outgoing edge included.
C12_OutMassChecked ==
  (Chained /\ \E n \in SeqToSet(mpg.nodes) :
                offByMoreThanTolerance(totalPr(outEdgesOf(mpg, n.address))))
    => /\ chain.status = "thrown"
       /\ Thrown
       /\ chain.nodeOrder = <<>>
       /\ chain.chain = <<>>

\* toMarkovChain has thrown on a graph from fromJSON in which one node has
\* no outgoing edge and the edges of another sum to 1
C12_Witness ==
  /\ Chained
  /\ chain.status = "thrown"
  /\ json # NoJson
  /\ \E n \in SeqToSet(mpg.nodes) : Len(outEdgesOf(mpg, n.address)) = 0
  /\ \E n \in SeqToSet(mpg.nodes) :
       /\ Len(outEdgesOf(mpg, n.address)) = 2
       /\ totalPr(outEdgesOf(mpg, n.address)) = One

\* the node addresses of a graph, in the order of its _nodes map
nodeKeys(g) == [i \in DOMAIN g.nodes |-> g.nodes[i].address]

\* the edges of a graph into the node at an address, in the order of _edges
inEdgesOf(g, a) ==
  LET into(e) == e.dst = a IN SelectSeq(g.edges, into)

\* the edges of a graph whose dst is a node of the graph
edgesIntoNodes(g) ==
  LET intoNode(e) == e.dst \in SeqToSet(nodeKeys(g))
  IN  SelectSeq(g.edges, intoNode)

RECURSIVE totalEntriesFrom(_, _)
totalEntriesFrom(entries, k) ==
  IF k > Len(entries) THEN 0
  ELSE Len(entries[k].neighbor) + totalEntriesFrom(entries, k + 1)
totalEntries(entries) == totalEntriesFrom(entries, 1)

\* nodeOrder is the node addresses, each once, in ascending order, and the
\* entry of the node at position k has, for every edge into that node, the
\* nodeOrder index of the edge's src and the edge's probability
chainMatchesGraph ==
  /\ Len(chain.nodeOrder) = Len(mpg.nodes)
  /\ SeqToSet(chain.nodeOrder) = SeqToSet(nodeKeys(mpg))
  /\ \A i, j \in DOMAIN chain.nodeOrder :
       i < j => addressLess(chain.nodeOrder[i], chain.nodeOrder[j])
  /\ Len(chain.chain) = Len(chain.nodeOrder)
  /\ \A k \in DOMAIN chain.chain :
       LET entry == chain.chain[k]
           inEdges == inEdgesOf(mpg, chain.nodeOrder[k])
       IN  /\ Len(entry.neighbor) = Len(inEdges)
           /\ Len(entry.weight) = Len(inEdges)
           /\ \A i \in DOMAIN inEdges :
                /\ entry.neighbor[i] + 1 \in DOMAIN chain.nodeOrder
                /\ chain.nodeOrder[entry.neighbor[i] + 1] = inEdges[i].src
                /\ entry.weight[i] = inEdges[i].transitionProbability

C13_ParallelEdgesReached ==
  /\ chain.status = "ok"
  /\ json = NoJson
  /\ chain.nodeOrder # nodeKeys(mpg)
  /\ \E k \in DOMAIN chain.chain :
       \E i, j \in DOMAIN chain.chain[k].neighbor :
         i # j /\ chain.chain[k].neighbor[i] = chain.chain[k].neighbor[j]

\* two graphs have the same nodes, the same edges by (address, reversed)
\* with the same src, dst and probability, and the same scoring addresses
sameGraph(g, h) ==
  /\ SeqToSet(g.nodes) = SeqToSet(h.nodes)
  /\ Len(g.nodes) = Len(h.nodes)
  /\ \A x \in {g, h} : \A y \in {g, h} :
       \A e \in SeqToSet(x.edges) :
         LET sameKey(f) == f.address = e.address /\ f.reversed = e.reversed
             found == SelectSeq(y.edges, sameKey)
         IN  /\ Len(found) = 1
             /\ found[1].src = e.src
             /\ found[1].dst = e.dst
             /\ found[1].transitionProbability = e.transitionProbability
  /\ SeqToSet(g.scoringAddresses) = SeqToSet(h.scoringAddresses)

\* C14: toJSON leaves the graph it is called on unchanged, and fromJSON of
\* the value toJSON returned for a graph built by new succeeds with a graph
\* of the same nodes (address, description, mint), the same edges by
\* (address, reversed) with the same src, dst and probability, and the same
\* scoring addresses.
C14_RoundTrip ==
  [][/\ (pc = "returned" /\ pc' = "fromJSON") => mpg' = mpg
     /\ (pc = "fromJSON" /\ mpg # NoGraph) =>
          /\ pc' = "loaded"
          /\ json = toJSON(mpg)
          /\ sameGraph(mpg, mpg')]_vars

\* fromJSON has returned the graph of a value toJSON made from a graph built
\* by new, with scoring addresses and with an edge in both directions
C14_Witness ==
  /\ pc = "loaded"
  /\ Len(wg.graph.nodes) > 0
  /\ json = toJSON(mpg)
  /\ Len(mpg.scoringAddresses) > 0
  /\ \E e, f \in SeqToSet(mpg.edges) :
       e.address = f.address /\ e.reversed /\ ~f.reversed

\* the names of the sub-commands go has called, in the order of the calls
calledNames == [i \in DOMAIN goCalls |-> goCalls[i].name]

\* the position of a name in load, graph, score
positionOf(name) ==
  CHOOSE k \in 1..3 : <<"load", "graph", "score">>[k] = name

\* C15: go calls load, graph and score in that order, each call made only
\* when every earlier call has returned 0; a call that returns another code
\* is the last call and go returns 1; go returns 0 only when every call it
\* made has returned 0, and then it has made all the calls it was to make.
C15_InSequence ==
  /\ \A i, j \in DOMAIN goCalls :
       i < j => positionOf(goCalls[i].name) < positionOf(goCalls[j].name)
  /\ \A i \in DOMAIN goCalls :
       i < Len(goCalls) =>
         goCalls[i].status = "returned" /\ goCalls[i].ret = 0
  /\ \A i \in DOMAIN goCalls :
       (goCalls[i].status = "returned" /\ goCalls[i].ret # 0) =>
         /\ i = Len(goCalls)
         /\ goPc = "returned"
         /\ goRet = 1
         /\ goErr = <<"fatal: go: failed on command " \o goCalls[i].name>>
  /\ (goPc = "returned" /\ goRet = 0) =>
       /\ \A i \in DOMAIN goCalls :
            goCalls[i].status = "returned" /\ goCalls[i].ret = 0
       /\ calledNames \in {<<"load", "graph", "score">>, <<"graph", "score">>}

\* go has returned 1 after load returned 0 and graph returned a code that
\* is neither 0 nor 1, without calling score
C15_Witness ==
  /\ goPc = "returned"
  /\ goRet = 1
  /\ calledNames = <<"load", "graph">>
  /\ goCalls[1].ret = 0
  /\ goCalls[2].ret = 2

\* C16: with the one argument --no-load go never calls load and calls
\* graph, then score; with any other argument list that is not empty go
\* calls no sub-command and returns 1 with the usage message.
C16_NoLoadAndUsage ==
  /\ goArgs = <<"--no-load">> =>
       /\ \A i \in DOMAIN goCalls : goCalls[i].name # "load"
       /\ calledNames \in {<<>>, <<"graph">>, <<"graph", "score">>}
       /\ (goPc = "returned" /\ goRet = 0) =>
            calledNames = <<"graph", "score">>
  /\ (Len(goArgs) # 0 /\ goArgs # <<"--no-load">>) =>
       /\ goCalls = <<>>
       /\ goPc \in {"start", "returned"}
       /\ goPc = "returned" =>
            /\ goRet = 1
            /\ goErr = <<"fatal: usage: sourcecred go [--no-load]">>

\* go --no-load has returned 0 after graph and score
C16_Witness ==
  /\ goArgs = <<"--no-load">>
  /\ goPc = "returned"
  /\ goRet = 0
  /\ calledNames = <<"graph", "score">>

\* go has refused --no-load followed by another argument
C16_UsageReached ==
  /\ Len(goArgs) = 2
  /\ goArgs[1] = "--no-load"
  /\ goPc = "returned"
  /\ goRet = 1

\* the nodes of a graph that are nodes of the input graph
baseNodesOf(g) ==
  {n \in SeqToSet(g.nodes) :
     n.address # SEED_ADDRESS /\ ~isEpochNode(n.address)}

\* the probability of the radiation edge of a node
radiationOf(g, a) ==
  LET radiation == SelectSeq(outEdgesOf(g, a), isRadiationEdge)
  IN  radiation[1].transitionProbability

C18_EndpointsAreNodes ==
  /\ Returned =>
       /\ \A e \in SeqToSet(mpg.edges) :
            /\ e.src \in SeqToSet(nodeKeys(mpg))
            /\ e.dst \in SeqToSet(nodeKeys(mpg))
       /\ \A x \in SeqToSet(graphEdges(wg)) :
            \A a \in {x.src, x.dst} :
              a \in SeqToSet(_scoringAddresses) =>
                LET epoch == rewriteEpochNode(_scoringAddresses,
                                              timeBoundaries, a, x.timestampMs)
                IN  /\ epoch \in createdEpochNodes
                    /\ epoch \in SeqToSet(nodeKeys(mpg))
  /\ (Chained /\ FromNew) =>
       /\ chain.status = "ok"
       /\ totalEntries(chain.chain) = Len(mpg.edges)

\* toMarkovChain has succeeded on a graph returned by new in which a base
\* edge leaves an epoch node that does not start at -Infinity and another
\* enters an epoch node that does
C18_Witness ==
  /\ Chained
  /\ json = NoJson
  /\ chain.status = "ok"
  /\ Len(mpg.edges) > 0
  /\ \E e \in SeqToSet(baseEdgesOf(mpg)) :
       /\ isEpochNode(e.src)
       /\ epochNodeAddressFromRaw(e.src).epochStart # NegInf
  /\ \E e \in SeqToSet(baseEdgesOf(mpg)) :
       /\ isEpochNode(e.dst)
       /\ epochNodeAddressFromRaw(e.dst).epochStart = NegInf
====
